---- MODULE Spec2Model ----
(***************************************************************************)
(* Model of MultiversoWrapper<ElemType>                                    *)
(* (Source/Common/Include/MultiversoWrapper.h): the per-worker staging     *)
(* buffers, the pipelined / non-pipelined ModelSync protocol, its          *)
(* background transfer thread, and the update-coefficient schedule.        *)
(*                                                                         *)
(* Arrays of the source are functions over 0-based index ranges.  Element  *)
(* values are integers; weights (float / double in the source) are exact   *)
(* rationals <<num, den>> with den > 0.                                    *)
(***************************************************************************)
EXTENDS Integers, Sequences, FiniteSets, TLC

\* ------------------------------------------------------------------ bounds
\* The training loop makes at most MaxCalls calls of ModelInit and ModelSync.
MaxCalls == 4
\* Layouts are computed for lists of at most MaxNodes learnable nodes and for
\* at most MaxWorkers workers.
MaxNodes == 2
MaxWorkers == 3
\* The update coefficient is followed over MaxRound rounds, for ramps of at
\* most MaxRamp rounds.
MaxRound == 8
MaxRamp == 3

\* ------------------------------------------------------------- rationals
Rat(n, d) == <<n, d>>
RatEq(a, b) == a[1] * b[2] = b[1] * a[2]
RatLeq(a, b) == a[1] * b[2] <= b[1] * a[2]
RatMin(a, b) == IF RatLeq(a, b) THEN a ELSE b
RatMax(a, b) == IF RatLeq(a, b) THEN b ELSE a
RatZero == Rat(0, 1)
RatOne == Rat(1, 1)
RatIsZero(a) == a[1] = 0
RatTimes(a, b) == Rat(a[1] * b[1], a[2] * b[2])
RatPlus(a, b) == Rat(a[1] * b[2] + b[1] * a[2], a[2] * b[2])
RatLess(a, b) == ~RatLeq(b, a)

\* ------------------------------------------------------------ input sets
\* enum class AdjustLearningRateatBeginning
AdjustTypes == {"None", "Linearly", "Staircase"}
\* The initial model: a list of learnable nodes, each a list of elements.
NodeLists == { << <<1>>, <<2, 4>> >> }
WorkerNumbers == {1, 2}
MomentumAdds == {Rat(0, 1), Rat(3, 10)}
ElasticAdds == {Rat(0, 1), Rat(1, 2)}
AdjustCoefs == {Rat(1, 5)}
AdjustNbmbs == {2}
\* What training adds to every element of the model between two calls.
TrainSteps == {3}
\* An indeterminate value: what memory that is uninitialised, freed or was
\* never allocated may hold.  Whatever is computed from it is indeterminate.
GarbageVals == {-1000}
Garbage == CHOOSE g \in GarbageVals : TRUE

VARIABLES
    \* build, environment and constructor arguments
    CPUONLY,            \* TRUE: the host-only build (#else branches)
    numNodesInUse,      \* g_mpi->NumNodesInUse()
    reuse,              \* memory the wrapper does not own is written by its owner
    args,               \* the constructor's arguments
    model,              \* the learnable nodes' values: node i (1-based) -> elements
    store,              \* the parameter table on the server, flattened
    \* the caller thread
    pc,
    \* fields of MultiversoWrapper
    commCnt, adjusttype, adjustcoef, adjustnbmb, momentumAdd, elasticAdd,
    isInitialized, nClients, isPipeline, nLocalCache, pCacheState, nCacheIdx,
    vTableLength, lTotalLength, vTableIdx, nTableCnt,
    pSizeEachServer, pIdxEachServer,
    pDelta, pPCache, pPMatrixCache, pTempForServer, pTempForLocal,
    heap,               \* allocation status of every buffer
    pThread, tasks,     \* the current thread object and all threads spawned
    factor,             \* the local `factor` of the non-pipelined ModelSync
    \* history
    peers,              \* the other workers of the job, each running ModelInit
    calls,              \* the calls made on the adaptor, in order
    rounds,             \* per ModelSync call: what it read, subtracted and loaded
    inits,              \* per ModelInit call: what it stored and loaded
    nCalls, trained

inputs == <<CPUONLY, numNodesInUse, reuse, args>>
config == <<adjusttype, adjustcoef, adjustnbmb, momentumAdd, elasticAdd,
            isInitialized, nClients, isPipeline, nLocalCache, pCacheState>>
layout == <<vTableLength, lTotalLength, vTableIdx, nTableCnt,
            pSizeEachServer, pIdxEachServer>>
buffers == <<pDelta, pPCache, pPMatrixCache, pTempForServer, pTempForLocal>>
threads == <<pThread, tasks>>
history == <<calls, rounds, inits>>
counters == <<nCalls, trained>>
vars == <<inputs, model, store, pc, commCnt, config, nCacheIdx, layout,
          buffers, heap, threads, factor, peers, history, counters>>

\* ---------------------------------------------------------------- helpers
RECURSIVE SumTo(_, _)
SumTo(s, n) == IF n = 0 THEN 0 ELSE SumTo(s, n - 1) + s[n]

Min(a, b) == IF a <= b THEN a ELSE b

\* A buffer of n elements, every one equal to v.
Filled(n, v) == [j \in 0 .. n - 1 |-> v]

\* mat.CopyToArray(buf + off, len): `len` elements of `vals` written at `off`.
CopyToArray(buf, off, vals, len) ==
    [j \in DOMAIN buf |->
        IF off <= j /\ j < off + len THEN vals[j - off + 1] ELSE buf[j]]

\* mat.SetValue(rows, cols, deviceId, buf + off): the matrix takes `len`
\* elements of buf, starting at off.
SetValue(buf, off, len) == [e \in 1 .. len |-> buf[off + e - 1]]

\* Arithmetic on element values.
Sub(x, y) == IF x \in GarbageVals THEN x ELSE IF y \in GarbageVals THEN y ELSE x - y
Plus(x, y) == IF x \in GarbageVals THEN x ELSE IF y \in GarbageVals THEN y ELSE x + y
Scaled(w, x) == IF x \in GarbageVals THEN x ELSE (w[1] * x) \div w[2]

\* transform(a, a + n, b, out, std::minus): elementwise a - b.
Minus(a, b) == [j \in DOMAIN a |-> Sub(a[j], b[j])]

\* Buffer identities.
BufDelta == <<"pDelta", 0>>
BufCache(i) == <<"pPCache", i>>
BufMatrix(i) == <<"pPMatrixCache", i>>
BufTempServer == <<"pTempForServer", 0>>
BufTempLocal == <<"pTempForLocal", 0>>
AllBuffers == {BufDelta, BufTempServer, BufTempLocal}
                  \cup {BufCache(i) : i \in 0 .. 1} \cup {BufMatrix(i) : i \in 0 .. 1}

\* ------------------------------------------------------- layout (Init)
\* Every row given the rounded-down share.
PartSizeFloor(L, n, i) == L \div n

\* _pSizeEachServer[i], for a table of total length L split over n rows.
PartSize(L, n, i) == IF i < L % n THEN (L \div n) + 1 ELSE L \div n

\* _pIdxEachServer[i]: the running sum `idx` of the loop.
RECURSIVE PartIdx(_, _, _)
PartIdx(L, n, i) == IF i = 0 THEN 0 ELSE PartIdx(L, n, i - 1) + PartSize(L, n, i - 1)

\* _vTableLength: one entry per learnable node, mat.GetNumElements().
TableLength(nodes) == [i \in 0 .. Len(nodes) - 1 |-> Len(nodes[i + 1])]

\* The largest value of an int.
IntMax == 2147483647

\* init = init + *first of accumulate, init being an int (the literal 0 of
\* line 424) and *first a size_t: the sum is cut to 32 bits and read as a
\* signed number.  a is an int, 0 <= b <= IntMax.
IntAdd(a, b) ==
    IF a > 0 /\ a > IntMax - b THEN (a - IntMax - 1) + (b - IntMax - 1) ELSE a + b

\* accumulate(begin, end, 0) over the first n lengths.
RECURSIVE Accumulate(_, _)
Accumulate(lengths, n) ==
    IF n = 0 THEN 0 ELSE IntAdd(Accumulate(lengths, n - 1), lengths[n - 1])

\* _lTotalLength = accumulate(_vTableLength.begin(), _vTableLength.end(), 0);
\* a negative int stands for the size_t it converts to (2^64 plus it).
TotalLength(nodes) == Accumulate(TableLength(nodes), Len(nodes))

\* _vTableIdx: the running sum of the lengths pushed so far.
TableIdx(nodes) ==
    [i \in 0 .. Len(nodes) - 1 |-> SumTo([k \in 1 .. Len(nodes) |-> Len(nodes[k])], i)]

\* ------------------------------------------------------------------ Init
NoBuffer == [j \in {} |-> 0]

\* The status of a buffer.  Memory that is not allocated (never allocated, or
\* freed) either keeps what the wrapper writes to it or, when `lost`, belongs
\* to someone else: then whatever is read from it is indeterminate.
Unallocated(lost) == [state |-> "unalloc", size |-> 0, lost |-> lost]
Allocated(n) == [state |-> "ok", size |-> n, lost |-> FALSE]
Freed(lost) == [state |-> "freed", size |-> 0, lost |-> lost]

\* The state before construction; `in` gives the sets the arguments are drawn
\* from and tells whether the other workers of the job are modelled.
\* Another worker of the job: its own initial model (node by node), and what
\* its ModelInit has stored in its slot 0 and _pDelta and has loaded.
NewPeer(nodes, p) ==
    [pc |-> "mi_copy",
     model |-> [i \in DOMAIN nodes |-> [e \in DOMAIN nodes[i] |-> nodes[i][e] + 10 * p]],
     slot0 |-> NoBuffer, delta |-> NoBuffer, loaded |-> NoBuffer]

InitOf(in) ==
    /\ CPUONLY \in BOOLEAN
    \* _momentumAdd is read by the check of line 72 only: it is non-zero only
    \* together with a non-zero elasticAdd, the one case in which it matters
    /\ args \in {a \in [localWorkerNumber : in.workers, isPipeline : in.pipelines,
                        momentumAdd : MomentumAdds, elasticAdd : ElasticAdds,
                        adjusttype : in.adjustTypes, adjustcoef : in.adjustCoefs,
                        adjustnbmb : in.adjustNbmbs] :
                    RatIsZero(a.momentumAdd) \/ ~RatIsZero(a.elasticAdd)}
    \* only the host-only pipelined task reads g_mpi->NumNodesInUse()
    /\ numNodesInUse \in IF CPUONLY /\ args.isPipeline THEN in.workers
                                                       ELSE {args.localWorkerNumber}
    \* only the host-only build touches memory it does not own
    /\ reuse \in IF CPUONLY THEN BOOLEAN ELSE {FALSE}
    /\ model \in in.nodeLists
    /\ store = NoBuffer
    /\ pc = "new"
    /\ commCnt = 0
    /\ adjusttype = "None" /\ adjustcoef = RatZero /\ adjustnbmb = 0
    /\ momentumAdd = RatZero /\ elasticAdd = RatZero
    /\ isInitialized = FALSE /\ nClients = 0 /\ isPipeline = FALSE
    /\ nLocalCache = 0 /\ pCacheState = NoBuffer /\ nCacheIdx = 0
    /\ vTableLength = NoBuffer /\ lTotalLength = 0 /\ vTableIdx = NoBuffer
    /\ nTableCnt = 0 /\ pSizeEachServer = NoBuffer /\ pIdxEachServer = NoBuffer
    /\ pDelta = NoBuffer /\ pPCache = NoBuffer /\ pPMatrixCache = NoBuffer
    /\ pTempForServer = NoBuffer /\ pTempForLocal = NoBuffer
    /\ heap = [b \in {} |-> Unallocated(FALSE)]
    /\ pThread = 0 /\ tasks = <<>>
    /\ factor = RatZero
    /\ calls = <<>> /\ rounds = <<>> /\ inits = <<>>
    /\ nCalls = 0 /\ trained = FALSE
    /\ peers = IF in.withPeers
               THEN [p \in 1 .. args.localWorkerNumber - 1 |-> NewPeer(model, p)]
               ELSE <<>>

\* The wrapper of one worker; the other workers are not modelled.
Inputs ==
    [nodeLists |-> NodeLists, workers |-> WorkerNumbers, pipelines |-> BOOLEAN,
     adjustTypes |-> AdjustTypes, adjustCoefs |-> AdjustCoefs,
     adjustNbmbs |-> AdjustNbmbs, withPeers |-> FALSE]

Init == InitOf(Inputs)

\* ----------------------------------------------------------- constructor
\* if (_momentumAdd * _elasticAdd != 0) InvalidArgument(...): the constructor
\* throws and no wrapper exists.
\* The check raising as soon as one of the two is not zero.
InvalidAddsEither(m, e) == ~RatIsZero(m) \/ ~RatIsZero(e)

\* Line 72: _momentumAdd * _elasticAdd != 0
InvalidAdds(m, e) == ~RatIsZero(RatTimes(m, e))

ConstructFail ==
    /\ pc = "new"
    /\ InvalidAdds(args.momentumAdd, args.elasticAdd)
    /\ pc' = "error"
    /\ commCnt' = 0
    /\ adjusttype' = args.adjusttype /\ adjustcoef' = args.adjustcoef
    /\ adjustnbmb' = args.adjustnbmb
    /\ momentumAdd' = args.momentumAdd /\ elasticAdd' = args.elasticAdd
    /\ UNCHANGED <<inputs, peers, model, store, isInitialized, nClients, isPipeline,
                   nLocalCache, pCacheState, nCacheIdx, layout, buffers, heap,
                   threads, factor, history, counters>>

\* The buffers Init() allocates: pinned host memory for every buffer in the
\* device build, only the cache slots in the host-only build.
InitHeap(cpuonly, n, L, lost) ==
    [b \in {BufDelta, BufTempServer, BufTempLocal}
            \cup {BufCache(i) : i \in 0 .. n - 1} \cup {BufMatrix(i) : i \in 0 .. n - 1} |->
        IF b[1] = "pPCache" THEN Allocated(L + 1)
        ELSE IF b[1] = "pPMatrixCache" THEN Unallocated(FALSE)
        ELSE IF cpuonly THEN Unallocated(lost) ELSE Allocated(L + 1)]

Construct ==
    /\ pc = "new"
    /\ ~InvalidAdds(args.momentumAdd, args.elasticAdd)
    /\ commCnt' = 0
    /\ adjusttype' = args.adjusttype /\ adjustcoef' = args.adjustcoef
    /\ adjustnbmb' = args.adjustnbmb
    /\ momentumAdd' = args.momentumAdd /\ elasticAdd' = args.elasticAdd
    /\ nClients' = args.localWorkerNumber
    /\ isPipeline' = args.isPipeline
    /\ nLocalCache' = IF args.isPipeline THEN 2 ELSE 1
    /\ nCacheIdx' = 0
    /\ pCacheState' = [i \in 0 .. nLocalCache' - 1 |-> (i + 1) % nLocalCache']
    /\ pThread' = 0 /\ tasks' = <<>>
    \* Init(learnableNodes, 1)
    /\ isInitialized' = TRUE
    /\ vTableLength' = TableLength(model)
    /\ nTableCnt' = Len(model)
    /\ lTotalLength' = TotalLength(model)
    /\ pIdxEachServer' = [i \in 0 .. nClients' - 1 |-> PartIdx(lTotalLength', nClients', i)]
    /\ pSizeEachServer' = [i \in 0 .. nClients' - 1 |-> PartSize(lTotalLength', nClients', i)]
    /\ vTableIdx' = TableIdx(model)
    /\ heap' = InitHeap(CPUONLY, nLocalCache', lTotalLength', reuse)
    \* nothing has been written to any buffer yet
    /\ pDelta' = Filled(lTotalLength', Garbage)
    /\ pTempForServer' = Filled(lTotalLength', Garbage)
    /\ pTempForLocal' = Filled(lTotalLength', Garbage)
    /\ pPCache' = [i \in 0 .. nLocalCache' - 1 |-> Filled(lTotalLength', Garbage)]
    /\ pPMatrixCache' = [i \in 0 .. nLocalCache' - 1 |->
                           [k \in 1 .. Len(model) |-> [e \in 1 .. Len(model[k]) |-> Garbage]]]
    \* multiverso::SetTable(table_id, _nClients, ...): an empty table
    /\ store' = Filled(lTotalLength', 0)
    /\ pc' = "idle"
    /\ UNCHANGED <<inputs, peers, model, factor, history, counters>>

\* ------------------------------------------------ getUpdateCoefficient
\* f = min(1.f, max(0.f, ...)) of the schedule selected by the adjust type,
\* read from the fields _adjustcoefficient, _adjustnbmb and _commCnt as they
\* are when the function runs.
\* No clamping.
ClampNone(x) == x

Clamp01(x) == RatMin(RatOne, RatMax(RatZero, x))

\* The coefficient 1.0 whatever the adjust type.
UpdateCoefficientFlat(cnt) == RatOne

\* The switch of lines 475-487 for a value cnt of _commCnt.
UpdateCoefficient(cnt) ==
    CASE adjusttype = "Linearly" ->
            Clamp01(Rat(adjustcoef[1] * adjustnbmb
                            + (adjustcoef[2] - adjustcoef[1]) * cnt,
                        adjustcoef[2] * adjustnbmb))
      [] adjusttype = "Staircase" ->
            Clamp01(Rat(adjustcoef[1] * ((cnt \div adjustnbmb) + 1), adjustcoef[2]))
      [] OTHER -> RatOne

\* The even weight of ModelInit used for every round.
EvenCoefficient == Rat(1, nClients)

getUpdateCoefficient == UpdateCoefficient(commCnt)

\* ------------------------------------------------------ buffer transfers
\* What buffer b holds after `content` has been written to it.
Put(b, content) == IF heap[b].lost THEN Filled(lTotalLength, Garbage) ELSE content

\* The loop over the learnable nodes: node i copied to buf + _vTableIdx[i].
RECURSIVE GatherNodes(_, _, _)
GatherNodes(buf, nodes, n) ==
    IF n = 0 THEN buf
    ELSE CopyToArray(GatherNodes(buf, nodes, n - 1), vTableIdx[n - 1], nodes[n],
                     vTableLength[n - 1])

\* The loop over the learnable nodes: node i set from buf + _vTableIdx[i].
ScatterNodes(buf, nodes) ==
    [i \in 1 .. Len(nodes) |-> SetValue(buf, vTableIdx[i - 1], Len(nodes[i]))]

\* Element j lies in row `row` of the partition map.
InRow(row, j) ==
    pIdxEachServer[row] <= j /\ j < pIdxEachServer[row] + pSizeEachServer[row]

\* _adaptor->BatchLoad(table_id, buf, _pIdxEachServer, _pSizeEachServer)
BatchLoad(buf) ==
    [j \in DOMAIN buf |->
        IF \E row \in 0 .. nClients - 1 : InRow(row, j) THEN store[j] ELSE buf[j]]

\* The server's table after Add(table_id, row, src + _pIdxEachServer[row], w)
\* for row = 0 .. n - 1: every element of a row the table has grows by w * src.
StoreAfterAdds(n, src, w) ==
    [j \in DOMAIN store |->
        IF \E row \in 0 .. Min(n, nClients) - 1 : InRow(row, j)
        THEN Plus(store[j], Scaled(w, src[j]))
        ELSE store[j]]

\* The records of the calls: Add for row = 0 .. n - 1, in this order.
\* Worker 0 is the wrapper modelled in full, workers 1, 2, ... are its peers.
AddCallsOf(wk, who, rnd, n, src, w) ==
    [r \in 1 .. n |->
        [worker |-> wk, op |-> "Add", by |-> who, round |-> rnd, row |-> r - 1,
         buf |-> src, weight |-> w]]

LoadCallOf(wk, who, rnd, dst) ==
    [worker |-> wk, op |-> "BatchLoad", by |-> who, round |-> rnd, row |-> -1,
     buf |-> dst, weight |-> RatZero]

BarrierCallOf(wk, who, rnd) ==
    [worker |-> wk, op |-> "Barrier", by |-> who, round |-> rnd, row |-> -1,
     buf |-> NoBuffer, weight |-> RatZero]

AddCalls(who, rnd, n, src, w) == AddCallsOf(0, who, rnd, n, src, w)
LoadCall(who, rnd, dst) == LoadCallOf(0, who, rnd, dst)
BarrierCall(who, rnd) == BarrierCallOf(0, who, rnd)

\* ------------------------------------------------------------ ModelInit
\* The training loop calls ModelInit before its first ModelSync; nothing in
\* the wrapper keeps it from calling it again later.
ModelInit ==
    /\ pc = "idle"
    /\ nCalls < MaxCalls
    /\ nCalls' = nCalls + 1
    /\ pc' = "mi_copy"
    /\ inits' = Append(inits, [snapshot |-> NoBuffer, loaded |-> NoBuffer])
    /\ UNCHANGED <<inputs, peers, model, store, commCnt, config, nCacheIdx, layout, buffers,
                   heap, threads, factor, calls, rounds, trained>>

\* Lines 141-158: every node into slot 0 (and, in the device build, a new
\* device matrix per slot), slot 0 into every other slot and into _pDelta.
\* The loop of lines 155-156 left out: only slot 0 is written.
MirroredNone(slot0) == [i \in DOMAIN pPCache |-> IF i = 0 THEN slot0 ELSE pPCache[i]]

\* Lines 155-156: memcpy(_pPCache[i], _pPCache[0], ...) for i = 1 .. _nLocalCache - 1.
Mirrored(slot0) == [i \in DOMAIN pPCache |-> Put(BufCache(i), slot0)]

MiCopy ==
    /\ pc = "mi_copy"
    /\ LET slot0 == Put(BufCache(0), GatherNodes(pPCache[0], model, Len(model)))
       IN /\ pPCache' = Mirrored(slot0)
          /\ pDelta' = Put(BufDelta, slot0)
          /\ inits' = [inits EXCEPT ![Len(inits)].snapshot = slot0]
    /\ IF CPUONLY
         THEN UNCHANGED <<pPMatrixCache, heap>>
         ELSE /\ pPMatrixCache' = [j \in DOMAIN pPMatrixCache |-> model]
              /\ heap' = [b \in DOMAIN heap |->
                            IF b[1] = "pPMatrixCache" THEN Allocated(lTotalLength)
                            ELSE heap[b]]
    /\ pc' = "mi_add"
    /\ UNCHANGED <<inputs, peers, model, store, commCnt, config, nCacheIdx, layout,
                   pTempForServer, pTempForLocal, threads, factor, calls, rounds,
                   counters>>

\* The barrier left out: the BatchLoad straight after the Adds.
AfterMiAddLoad == "mi_load"

\* Lines 160-163: the Adds, then the Barrier, then the BatchLoad.
AfterMiAdd == "mi_barrier"

\* Lines 160-161: Add of _pDelta, row by row, weight 1 / _nClients.
MiAdd ==
    /\ pc = "mi_add"
    /\ calls' = calls \o AddCalls("ModelInit", commCnt, nClients, pDelta, Rat(1, nClients))
    /\ store' = StoreAfterAdds(nClients, pDelta, Rat(1, nClients))
    /\ pc' = AfterMiAdd
    /\ UNCHANGED <<inputs, peers, model, commCnt, config, nCacheIdx, layout, buffers, heap,
                   threads, factor, rounds, inits, counters>>

\* The number of Barrier() calls worker 0 has made so far.
BarriersEntered == Len(inits) - (IF pc \in {"mi_copy", "mi_add"} THEN 1 ELSE 0)

\* Peer p has called Barrier() (and may have left it).
PeerArrived(p) == peers[p].pc \in {"mi_barrier", "mi_load", "idle"}

\* Line 162: _adaptor->Barrier() returns once every worker has called it as
\* many times; each peer calls it once.
MiBarrier ==
    /\ pc = "mi_barrier"
    /\ \A p \in DOMAIN peers : PeerArrived(p) /\ Len(inits) <= 1
    /\ calls' = Append(calls, BarrierCall("ModelInit", commCnt))
    /\ pc' = "mi_load"
    /\ UNCHANGED <<inputs, peers, model, store, commCnt, config, nCacheIdx, layout, buffers,
                   heap, threads, factor, rounds, inits, counters>>

\* Lines 163-165: BatchLoad into _pDelta, then _pDelta overwritten by slot 0.
MiLoad ==
    /\ pc = "mi_load"
    /\ calls' = Append(calls, LoadCall("ModelInit", commCnt, BatchLoad(pDelta)))
    /\ inits' = [inits EXCEPT ![Len(inits)].loaded = BatchLoad(pDelta)]
    /\ pDelta' = Put(BufDelta, pPCache[0])
    /\ pc' = "idle"
    /\ UNCHANGED <<inputs, peers, model, store, commCnt, config, nCacheIdx, layout, pPCache,
                   pPMatrixCache, pTempForServer, pTempForLocal, heap, threads, factor,
                   rounds, counters>>

\* ------------------------------------------------------------ ModelSync
\* What is recorded of one ModelSync call: the number of ModelInit calls
\* before it and before its subtraction, the values it read from the model
\* (local), the slots as they were when it read them (base), the operands of
\* its subtraction, the
\* snapshot its BatchLoad wrote, the values it wrote into the model, and what
\* _pDelta holds when its push is over (delta).
NewRound ==
    [initsBefore |-> Len(inits), slot |-> -1, local |-> NoBuffer, base |-> NoBuffer,
     pushed |-> FALSE, initsAtPush |-> 0, minuend |-> NoBuffer, subtrahend |-> NoBuffer,
     pulled |-> FALSE, loaded |-> NoBuffer, written |-> NoBuffer,
     delta |-> NoBuffer]

\* Flat view of the nodes' values, element e of node i at _vTableIdx[i] + e.
Flat(nodes) == GatherNodes(Filled(lTotalLength, 0), nodes, Len(nodes))

\* _elasticAdd <= 0.
NotElastic == RatLeq(elasticAdd, RatZero)

\* The counter left as it is.
NextCountSame == commCnt

\* Line 175: _commCnt++
NextCount == commCnt + 1

\* Lines 172-175: the call; _commCnt++ is its first statement.
ModelSync ==
    /\ pc = "idle"
    /\ Len(inits) > 0 /\ trained
    /\ nCalls < MaxCalls
    /\ nCalls' = nCalls + 1
    /\ commCnt' = NextCount
    /\ rounds' = Append(rounds, NewRound)
    /\ trained' = FALSE
    /\ pc' = "ms_join"
    /\ UNCHANGED <<inputs, peers, model, store, config, nCacheIdx, layout, buffers, heap,
                   threads, factor, calls, inits>>

\* thread::joinable(): false for the default-constructed thread of the
\* constructor, true for a started thread until it has been joined.
Joinable(t) == t > 0 /\ ~tasks[t].joined

\* detach() in place of join(): the caller does not wait.
JoinReturnsAtOnce(t) == TRUE

\* thread::join() returns once the thread's function has returned.
JoinReturns(t) == tasks[t].pc = "done"

\* The join left out.
MustJoinNever == FALSE

\* Line 179: if (_isPipeline && _pThread->joinable())
MustJoin == isPipeline /\ Joinable(pThread)

\* Lines 179-180: _pThread->join() returns when the thread has finished.
MsJoin ==
    /\ pc = "ms_join"
    /\ MustJoin => JoinReturns(pThread)
    /\ tasks' = IF MustJoin THEN [tasks EXCEPT ![pThread].joined = TRUE] ELSE tasks
    /\ pc' = "ms_rotate"
    /\ UNCHANGED <<inputs, peers, model, store, commCnt, config, nCacheIdx, layout, buffers,
                   heap, pThread, factor, history, counters>>

\* The slot not rotated.
NextSlotSame == nCacheIdx

\* The successor of the last slot, whatever the active slot is.
NextSlotZero == pCacheState[nLocalCache - 1]

\* Line 182: _nCacheIdx = _pCacheState[_nCacheIdx]
NextSlot == pCacheState[nCacheIdx]

MsRotate ==
    /\ pc = "ms_rotate"
    /\ nCacheIdx' = NextSlot
    /\ pc' = IF isPipeline THEN "ms_gather" ELSE "np_gather"
    /\ UNCHANGED <<inputs, peers, model, store, commCnt, config, layout, buffers, heap,
                   threads, factor, history, counters>>

\* Lines 194-203 (device build): the model into the device matrices of the
\* active slot, the device matrices of the other slot into the model.
MsGatherDevice ==
    /\ pc = "ms_gather" /\ ~CPUONLY
    /\ pPMatrixCache' = [pPMatrixCache EXCEPT ![nCacheIdx] = model]
    /\ model' = pPMatrixCache'[pCacheState[nCacheIdx]]
    /\ rounds' = [rounds EXCEPT ![Len(rounds)].local = Flat(model),
                                ![Len(rounds)].base = pPCache,
                                ![Len(rounds)].written = Flat(model')]
    /\ pc' = "ms_spawn"
    /\ UNCHANGED <<inputs, peers, store, commCnt, config, nCacheIdx, layout, pDelta, pPCache,
                   pTempForServer, pTempForLocal, heap, threads, factor, calls, inits,
                   counters>>

\* Lines 205-219 (host-only build): the model into the active slot, then the
\* model set from the other slot (from _pDelta when elastic), then
\* `delete px`: for node 0 px is the slot itself.
MsGatherHost ==
    /\ pc = "ms_gather" /\ CPUONLY
    /\ heap' = IF nTableCnt > 0
                THEN [heap EXCEPT ![BufCache(nCacheIdx)] = Freed(reuse)]
                ELSE heap
    /\ pPCache' = [pPCache EXCEPT ![nCacheIdx] =
                      IF heap'[BufCache(nCacheIdx)].lost THEN Filled(lTotalLength, Garbage)
                      ELSE GatherNodes(@, model, Len(model))]
    /\ model' = ScatterNodes(IF NotElastic THEN pPCache[pCacheState[nCacheIdx]] ELSE pDelta,
                             model)
    /\ rounds' = [rounds EXCEPT ![Len(rounds)].local = Flat(model),
                                ![Len(rounds)].base = pPCache,
                                ![Len(rounds)].written = Flat(model')]
    /\ pc' = "ms_spawn"
    /\ UNCHANGED <<inputs, peers, store, commCnt, config, nCacheIdx, layout, pDelta,
                   pPMatrixCache, pTempForServer, pTempForLocal, threads, factor, calls,
                   inits, counters>>

\* Lines 223 / 285: _pThread = new thread([&]() { ... }); the lambda holds
\* references only, it has read nothing yet when ModelSync returns.
NewTask ==
    [pc |-> "start", joined |-> FALSE, factor |-> RatZero, t_cacheIdx |-> -1,
     round |-> Len(rounds)]

MsSpawn ==
    /\ pc = "ms_spawn"
    /\ tasks' = Append(tasks, NewTask)
    /\ pThread' = Len(tasks) + 1
    /\ pc' = "idle"
    /\ UNCHANGED <<inputs, peers, model, store, commCnt, config, nCacheIdx, layout, buffers,
                   heap, factor, history, counters>>

\* ------------------------------------------------------- transfer steps
\* The order of the two transfer steps: Add then BatchLoad when not elastic
\* (lines 244-252), BatchLoad then Add when elastic (lines 253-263).
AfterStartPush == "push"
AfterStart == IF NotElastic THEN "push" ELSE "load"
AfterPush == IF NotElastic THEN "load" ELSE "end"
AfterLoad == IF NotElastic THEN "end" ELSE "push"

\* The weight of the Add calls of the elastic branch: (float)_elasticAdd.
ElasticWeight == elasticAdd

\* The operands of the transform of the delta branch: _pDelta minus slot t,
\* into _pDelta (lines 246, 291, 323).
DeltaOf(t) == Minus(pDelta, pPCache[t])

\* Lines 246-250, 291-293, 323-326: _pDelta -= slot t, then Add of _pDelta
\* for n rows with weight w.
DeltaPush(who, r, t, n, w) ==
    /\ pDelta' = Put(BufDelta, DeltaOf(t))
    /\ calls' = calls \o AddCalls(who, r, n, pDelta', w)
    /\ store' = StoreAfterAdds(n, pDelta', w)
    /\ rounds' = [rounds EXCEPT ![r].slot = t, ![r].pushed = TRUE,
                                ![r].delta = pDelta',
                                ![r].initsAtPush = Len(inits),
                                ![r].minuend = pDelta, ![r].subtrahend = pPCache[t]]
    /\ UNCHANGED pPCache

\* The second transform kept out: _pDelta left as it is.
ElasticRestKept(d, s) == d

\* Lines 262, 305, 338: the second transform of the elastic branch,
\* _pDelta (d) minus slot t (s), into _pDelta.
ElasticRest(d, s) == Minus(d, s)

\* Lines 257-262, 301-305, 333-338: slot t = _pDelta - slot t, Add of slot t
\* for n rows with weight _elasticAdd, then _pDelta -= slot t.
ElasticPush(who, r, t, n) ==
    /\ pPCache' = [pPCache EXCEPT ![t] = Put(BufCache(t), Minus(pDelta, @))]
    /\ calls' = calls \o AddCalls(who, r, n, pPCache'[t], ElasticWeight)
    /\ store' = StoreAfterAdds(n, pPCache'[t], ElasticWeight)
    /\ pDelta' = Put(BufDelta, ElasticRest(pDelta, pPCache'[t]))
    /\ rounds' = [rounds EXCEPT ![r].slot = t, ![r].pushed = TRUE,
                                ![r].delta = pDelta',
                                ![r].initsAtPush = Len(inits),
                                ![r].minuend = pDelta, ![r].subtrahend = pPCache[t]]

\* Lines 251, 255, 296, 300, 328, 332: BatchLoad into slot t.
LoadSlot(who, r, t) ==
    /\ pPCache' = [pPCache EXCEPT ![t] = Put(BufCache(t), BatchLoad(@))]
    /\ calls' = Append(calls, LoadCall(who, r, pPCache'[t]))
    /\ rounds' = [rounds EXCEPT ![r].slot = t, ![r].pulled = TRUE,
                                ![r].loaded = pPCache'[t]]
    /\ UNCHANGED <<pDelta, store>>

\* ------------------------------------------------- the background thread
\* A spawned thread runs as long as the process does.
Alive == pc \notin {"new", "error", "aborted"}

\* The row count of the task's Add loops: _nClients in the device build
\* (lines 249, 259), g_mpi->NumNodesInUse() in the host-only build (292, 302).
TaskRows == IF CPUONLY THEN numNodesInUse ELSE nClients

TaskEnd == IF CPUONLY THEN "done" ELSE "copyback"
TaskNext(step) == IF step = "end" THEN TaskEnd ELSE step

\* Lines 224-242 / 286-287: factor and t_cacheIdx are read from the wrapper
\* when the thread starts running; the device build then copies the device
\* matrices of slot t_cacheIdx into _pDelta.
BgStart(k) ==
    /\ Alive /\ tasks[k].pc = "start"
    /\ tasks' = [tasks EXCEPT ![k].pc = TaskNext(AfterStart),
                              ![k].factor = getUpdateCoefficient,
                              ![k].t_cacheIdx = nCacheIdx]
    /\ pDelta' = IF CPUONLY THEN pDelta
                 ELSE Put(BufDelta, GatherNodes(pDelta, pPMatrixCache[nCacheIdx], nTableCnt))
    /\ UNCHANGED <<inputs, peers, model, store, pc, commCnt, config, nCacheIdx, layout, pPCache,
                   pPMatrixCache, pTempForServer, pTempForLocal, heap, pThread, factor,
                   history, counters>>

BgPush(k) ==
    /\ Alive /\ tasks[k].pc = "push"
    /\ IF NotElastic
         THEN DeltaPush("ModelSync", tasks[k].round, tasks[k].t_cacheIdx, TaskRows,
                        tasks[k].factor)
         ELSE ElasticPush("ModelSync", tasks[k].round, tasks[k].t_cacheIdx, TaskRows)
    /\ tasks' = [tasks EXCEPT ![k].pc = TaskNext(AfterPush)]
    /\ UNCHANGED <<inputs, peers, model, pc, commCnt, config, nCacheIdx, layout, pPMatrixCache,
                   pTempForServer, pTempForLocal, heap, pThread, factor, inits, counters>>

BgLoad(k) ==
    /\ Alive /\ tasks[k].pc = "load"
    /\ LoadSlot("ModelSync", tasks[k].round, tasks[k].t_cacheIdx)
    /\ tasks' = [tasks EXCEPT ![k].pc = TaskNext(AfterLoad)]
    /\ UNCHANGED <<inputs, peers, model, pc, commCnt, config, nCacheIdx, layout, pPMatrixCache,
                   pTempForServer, pTempForLocal, heap, pThread, factor, inits, counters>>

\* Lines 266-281 (device build): slot t_cacheIdx (_pDelta when elastic) back
\* into the device matrices of slot t_cacheIdx.
BgCopyBack(k) ==
    /\ Alive /\ tasks[k].pc = "copyback"
    /\ pPMatrixCache' =
          [pPMatrixCache EXCEPT ![tasks[k].t_cacheIdx] =
              ScatterNodes(IF NotElastic THEN pPCache[tasks[k].t_cacheIdx] ELSE pDelta, @)]
    /\ tasks' = [tasks EXCEPT ![k].pc = "done"]
    /\ UNCHANGED <<inputs, peers, model, store, pc, commCnt, config, nCacheIdx, layout, pDelta,
                   pPCache, pTempForServer, pTempForLocal, heap, pThread, factor, history,
                   counters>>

\* ------------------------------------------------ non-pipelined ModelSync
\* ModelSync returning once the transfer steps are over, the write-back left out.
NpNextNoWrite(step) ==
    IF step = "end" THEN "idle" ELSE IF step = "push" THEN "np_push" ELSE "np_load"

\* The statements of the else branch (lines 310-356) follow one another on
\* the calling thread: gather, the two transfer steps, the write-back.
NpNext(step) == IF step = "end" THEN "np_write" ELSE IF step = "push" THEN "np_push" ELSE "np_load"

\* Lines 312-320: factor, then every node into _pDelta.
NpGather ==
    /\ pc = "np_gather"
    /\ factor' = getUpdateCoefficient
    /\ pDelta' = Put(BufDelta, GatherNodes(pDelta, model, Len(model)))
    /\ rounds' = [rounds EXCEPT ![Len(rounds)].local = Flat(model),
                                ![Len(rounds)].base = pPCache]
    /\ pc' = NpNext(AfterStart)
    /\ UNCHANGED <<inputs, peers, model, store, commCnt, config, nCacheIdx, layout, pPCache,
                   pPMatrixCache, pTempForServer, pTempForLocal, heap, threads, calls,
                   inits, counters>>

NpPush ==
    /\ pc = "np_push"
    /\ IF NotElastic
         THEN DeltaPush("ModelSync", Len(rounds), 0, nClients, factor)
         ELSE ElasticPush("ModelSync", Len(rounds), 0, nClients)
    /\ pc' = NpNext(AfterPush)
    /\ UNCHANGED <<inputs, peers, model, commCnt, config, nCacheIdx, layout, pPMatrixCache,
                   pTempForServer, pTempForLocal, heap, threads, factor, inits, counters>>

NpLoad ==
    /\ pc = "np_load"
    /\ LoadSlot("ModelSync", Len(rounds), 0)
    /\ pc' = NpNext(AfterLoad)
    /\ UNCHANGED <<inputs, peers, model, commCnt, config, nCacheIdx, layout, pPMatrixCache,
                   pTempForServer, pTempForLocal, heap, threads, factor, inits, counters>>

\* Lines 341-355: every node set from slot 0 (from _pDelta when elastic).
NpWrite ==
    /\ pc = "np_write"
    /\ model' = ScatterNodes(IF NotElastic THEN pPCache[0] ELSE pDelta, model)
    /\ rounds' = [rounds EXCEPT ![Len(rounds)].written = Flat(model')]
    /\ pc' = "idle"
    /\ UNCHANGED <<inputs, peers, store, commCnt, config, nCacheIdx, layout, buffers, heap,
                   threads, factor, calls, inits, counters>>

\* ------------------------------------------------------------ environment
\* The training loop: ModelInit once training is set up, then minibatches
\* (which change the model's values) each followed by ModelSync.
Train ==
    /\ pc = "idle" /\ ~trained /\ Len(inits) > 0
    /\ \E d \in TrainSteps :
          model' = [i \in DOMAIN model |-> [e \in DOMAIN model[i] |-> Plus(model[i][e], d)]]
    /\ trained' = TRUE
    /\ UNCHANGED <<inputs, peers, store, pc, commCnt, config, nCacheIdx, layout, buffers, heap,
                   threads, factor, history, nCalls>>

\* ------------------------------------------------------ buffer accesses
\* An access to memory that is not allocated may also end the process; the
\* process ending is a behaviour that stops, which every specification
\* below allows in every state.
\* The buffers the caller's next step reads or writes.
CallerAccess ==
    CASE pc = "mi_copy" -> {BufDelta} \cup {BufCache(i) : i \in DOMAIN pPCache}
      [] pc = "mi_add" -> {BufDelta}
      [] pc = "mi_load" -> {BufDelta, BufCache(0)}
      [] pc = "ms_gather" /\ ~CPUONLY ->
            {BufMatrix(nCacheIdx), BufMatrix(pCacheState[nCacheIdx])}
      [] pc = "ms_gather" /\ CPUONLY ->
            {BufCache(nCacheIdx),
             IF NotElastic THEN BufCache(pCacheState[nCacheIdx]) ELSE BufDelta}
      [] pc = "np_gather" -> {BufDelta}
      [] pc = "np_push" -> {BufDelta, BufCache(0)}
      [] pc = "np_load" -> {BufCache(0)}
      [] pc = "np_write" -> {IF NotElastic THEN BufCache(0) ELSE BufDelta}
      [] OTHER -> {}

\* The buffers the next step of task k reads or writes.
TaskAccess(k) ==
    CASE tasks[k].pc = "start" ->
            IF CPUONLY THEN {} ELSE {BufDelta, BufMatrix(nCacheIdx)}
      [] tasks[k].pc = "push" -> {BufDelta, BufCache(tasks[k].t_cacheIdx)}
      [] tasks[k].pc = "load" -> {BufCache(tasks[k].t_cacheIdx)}
      [] tasks[k].pc = "copyback" ->
            {BufMatrix(tasks[k].t_cacheIdx),
             IF NotElastic THEN BufCache(tasks[k].t_cacheIdx) ELSE BufDelta}
      [] OTHER -> {}

\* Task k has been started and its function has not returned.
Running(k) == tasks[k].pc # "done"

\* The buffers task k reads or writes from now until it returns; a task that
\* has not read _nCacheIdx yet will use the slot that field names.
TaskFootprint(k) ==
    IF ~Running(k) THEN {}
    ELSE LET t == IF tasks[k].pc = "start" THEN nCacheIdx ELSE tasks[k].t_cacheIdx
         IN {BufDelta, BufCache(t)} \cup (IF CPUONLY THEN {} ELSE {BufMatrix(t)})

Invalid(b) == heap[b].state # "ok"

Next ==
    \/ Construct \/ ConstructFail
    \/ ModelInit \/ MiCopy \/ MiAdd \/ MiBarrier \/ MiLoad
    \/ ModelSync \/ MsJoin \/ MsRotate \/ MsGatherDevice \/ MsGatherHost \/ MsSpawn
    \/ \E k \in DOMAIN tasks : BgStart(k)
    \/ \E k \in DOMAIN tasks : BgPush(k)
    \/ \E k \in DOMAIN tasks : BgLoad(k)
    \/ \E k \in DOMAIN tasks : BgCopyBack(k)
    \/ NpGather \/ NpPush \/ NpLoad \/ NpWrite
    \/ Train

Spec == Init /\ [][Next]_vars

\* ------------------------------------------- construction over many layouts
\* A learnable node of k elements.
NodeOf(k) == [e \in 1 .. k |-> e]
LayoutSizes == {1, 3, 5}
LayoutNodeLists ==
    {<<>>} \cup UNION {[1 .. n -> {NodeOf(k) : k \in LayoutSizes}] : n \in 1 .. MaxNodes}
LayoutWorkers == 1 .. MaxWorkers

LayoutInit ==
    InitOf([Inputs EXCEPT !.nodeLists = LayoutNodeLists, !.workers = LayoutWorkers])

\* Construction, then ModelInit, for every such node list and worker number.
LayoutNext ==
    \/ Construct \/ ConstructFail
    \/ ModelInit \/ MiCopy \/ MiAdd \/ MiBarrier \/ MiLoad

SpecLayout == LayoutInit /\ [][LayoutNext]_vars

\* ------------------------------------- ModelLoadServer and ModelLoadBack
\* Where a write through a pointer that was never set can land: in memory
\* that is none of the wrapper's buffers, or, that memory being someone
\* else's, in a cache slot or in what _pDelta points to.
Elsewhere == <<"elsewhere", 0>>
WildTargets(b) ==
    IF heap[b].state = "unalloc" /\ heap[b].lost
    THEN {Elsewhere, BufDelta} \cup {BufCache(i) : i \in DOMAIN pPCache}
    ELSE {Elsewhere}

\* Buffer `b` holding `content`, after a write of the whole length to `hit`.
Overwritten(b, content, hit) ==
    IF hit = b THEN Filled(lTotalLength, Garbage) ELSE content

\* Lines 359-384: every node into _pTempForLocal, BatchLoad into
\* _pTempForServer, every node set from _pTempForServer.  Neither pointer is
\* set in the host-only build (lines 453-456).
ModelLoadServer ==
    /\ pc = "idle"
    /\ nCalls < MaxCalls
    /\ nCalls' = nCalls + 1
    /\ pTempForLocal' = Put(BufTempLocal, GatherNodes(pTempForLocal, model, Len(model)))
    /\ pTempForServer' = Put(BufTempServer, BatchLoad(pTempForServer))
    /\ \E hit \in WildTargets(BufTempServer) :
          /\ pDelta' = Overwritten(BufDelta, pDelta, hit)
          /\ pPCache' = [i \in DOMAIN pPCache |-> Overwritten(BufCache(i), pPCache[i], hit)]
    /\ calls' = Append(calls, LoadCall("ModelLoadServer", commCnt, pTempForServer'))
    /\ model' = ScatterNodes(pTempForServer', model)
    /\ UNCHANGED <<inputs, peers, store, pc, commCnt, config, nCacheIdx, layout,
                   pPMatrixCache, heap, threads, factor, rounds, inits, trained>>

\* Lines 386-398: every node set from _pTempForLocal.
ModelLoadBack ==
    /\ pc = "idle"
    /\ nCalls < MaxCalls
    /\ nCalls' = nCalls + 1
    /\ model' = ScatterNodes(pTempForLocal, model)
    /\ UNCHANGED <<inputs, peers, store, pc, commCnt, config, nCacheIdx, layout, buffers, heap,
                   threads, factor, history, trained>>

\* Construction, ModelInit and the two load operations.
LoadNext ==
    \/ Construct \/ ConstructFail
    \/ ModelInit \/ MiCopy \/ MiAdd \/ MiBarrier \/ MiLoad
    \/ ModelLoadServer \/ ModelLoadBack

SpecLoad == Init /\ [][LoadNext]_vars

\* --------------------------------------------------------- the destructor
\* Line 106: the wrapper is destroyed between two calls.
Destroy ==
    /\ pc = "idle"
    /\ pc' = "dt_join"
    /\ UNCHANGED <<inputs, peers, model, store, commCnt, config, nCacheIdx, layout, buffers,
                   heap, threads, factor, history, counters>>

\* Lines 111-112: if (_isPipeline && _pThread != nullptr && _pThread->joinable())
\* _pThread->join(); _pThread is never null once constructed.
DtJoin ==
    /\ pc = "dt_join"
    /\ MustJoin => JoinReturns(pThread)
    /\ tasks' = IF MustJoin THEN [tasks EXCEPT ![pThread].joined = TRUE] ELSE tasks
    /\ pc' = "dt_free"
    /\ UNCHANGED <<inputs, peers, model, store, commCnt, config, nCacheIdx, layout, buffers,
                   heap, pThread, factor, history, counters>>

\* Lines 114-124: `delete _pCacheState, _pDelta, ...` is a comma expression
\* that deletes _pCacheState only; then every cache slot is freed
\* (cudaFreeHost / delete).  A slot freed before stays freed.
DtFree ==
    /\ pc = "dt_free"
    /\ heap' = [b \in DOMAIN heap |->
                  IF b[1] = "pPCache" THEN Freed(reuse) ELSE heap[b]]
    /\ pc' = "destroyed"
    /\ UNCHANGED <<inputs, peers, model, store, commCnt, config, nCacheIdx, layout, buffers,
                   threads, factor, history, counters>>

\* Every public operation of one wrapper, from construction to destruction.
LifeNext ==
    \/ Next
    \/ ModelLoadServer \/ ModelLoadBack
    \/ Destroy \/ DtJoin \/ DtFree

\* Two workers and no ramp: neither the worker number nor the adjust type
\* plays a part in which buffers and threads an operation touches.
LifeInit == InitOf([Inputs EXCEPT !.workers = {2}, !.adjustTypes = {"None"}])

SpecLife == LifeInit /\ [][LifeNext]_vars

\* ------------------------------------------- scheduling and termination
\* Line 219 in the host-only build: `delete px` on the block of the slot
\* (allocated with new[]) and, for the nodes after the first, on a pointer
\* into the middle of that freed block.  One outcome is the one of
\* MsGatherHost, another is that the allocator ends the process.
MsGatherAbort ==
    /\ pc = "ms_gather" /\ CPUONLY /\ nTableCnt > 0
    /\ pc' = "aborted"
    /\ UNCHANGED <<inputs, peers, model, store, commCnt, config, nCacheIdx, layout, buffers,
                   heap, threads, factor, history, counters>>

\* One worker and no ramp: neither plays a part in whether a statement can
\* run.
FairInit == InitOf([Inputs EXCEPT !.workers = {1}, !.adjustTypes = {"None"}])

\* The statements of a call in progress on the calling thread.
CallerStep ==
    \/ MiCopy \/ MiAdd \/ MiBarrier \/ MiLoad
    \/ MsJoin \/ MsRotate \/ MsGatherDevice \/ MsGatherHost \/ MsSpawn
    \/ NpGather \/ NpPush \/ NpLoad \/ NpWrite
    \/ DtJoin \/ DtFree

\* The statements of background thread k.
TaskStep(k) == BgStart(k) \/ BgPush(k) \/ BgLoad(k) \/ BgCopyBack(k)

FairNext == LifeNext \/ MsGatherAbort

\* Both threads are scheduled again and again, and every call on the adaptor
\* returns: a statement that can run does run.  When the training loop makes
\* its calls is left open.
Fairness ==
    /\ WF_vars(CallerStep)
    /\ \A k \in 1 .. MaxCalls : WF_vars(k \in DOMAIN tasks /\ TaskStep(k))

SpecFair == FairInit /\ [][FairNext]_vars /\ Fairness

\* ------------------------------------------ ModelInit on the other workers
\* The peers run the same ModelInit, in the same build and with the same
\* arguments, each on its own model and its own buffers.
\* Lines 141-158: the peer's nodes into its slot 0, slot 0 into its _pDelta.
PeerCopy(p) ==
    /\ Alive /\ peers[p].pc = "mi_copy"
    /\ LET slot0 == Put(BufCache(0), GatherNodes(Filled(lTotalLength, Garbage),
                                                 peers[p].model, Len(peers[p].model)))
       IN peers' = [peers EXCEPT ![p].slot0 = slot0, ![p].delta = Put(BufDelta, slot0),
                                 ![p].pc = "mi_add"]
    /\ UNCHANGED <<inputs, model, store, pc, commCnt, config, nCacheIdx, layout, buffers,
                   heap, threads, factor, history, counters>>

\* Lines 160-161.
PeerAdd(p) ==
    /\ Alive /\ peers[p].pc = "mi_add"
    /\ calls' = calls \o AddCallsOf(p, "ModelInit", 0, nClients, peers[p].delta,
                                    Rat(1, nClients))
    /\ store' = StoreAfterAdds(nClients, peers[p].delta, Rat(1, nClients))
    /\ peers' = [peers EXCEPT ![p].pc = AfterMiAdd]
    /\ UNCHANGED <<inputs, model, pc, commCnt, config, nCacheIdx, layout, buffers, heap,
                   threads, factor, rounds, inits, counters>>

\* Line 162: Barrier() returns once worker 0 and every other peer has called it.
PeerBarrier(p) ==
    /\ Alive /\ peers[p].pc = "mi_barrier"
    /\ BarriersEntered >= 1
    /\ \A q \in DOMAIN peers : PeerArrived(q)
    /\ calls' = Append(calls, BarrierCallOf(p, "ModelInit", 0))
    /\ peers' = [peers EXCEPT ![p].pc = "mi_load"]
    /\ UNCHANGED <<inputs, model, store, pc, commCnt, config, nCacheIdx, layout, buffers,
                   heap, threads, factor, rounds, inits, counters>>

\* Lines 163-165: BatchLoad into the peer's _pDelta, then its slot 0 copied
\* over its _pDelta.
PeerLoad(p) ==
    /\ Alive /\ peers[p].pc = "mi_load"
    /\ LET loaded == Put(BufDelta, BatchLoad(peers[p].delta))
       IN /\ calls' = Append(calls, LoadCallOf(p, "ModelInit", 0, loaded))
          /\ peers' = [peers EXCEPT ![p].loaded = loaded,
                                    ![p].delta = Put(BufDelta, peers[p].slot0),
                                    ![p].pc = "idle"]
    /\ UNCHANGED <<inputs, model, store, pc, commCnt, config, nCacheIdx, layout, buffers,
                   heap, threads, factor, rounds, inits, counters>>

\* A job of one, two or three workers, every one running ModelInit; the
\* adjust type plays no part in ModelInit.
JobSizes == {1, 2, 3}
WorkersInit ==
    InitOf([Inputs EXCEPT !.workers = JobSizes, !.adjustTypes = {"None"},
                          !.withPeers = TRUE])

WorkersNext ==
    \/ Construct \/ ConstructFail
    \/ ModelInit \/ MiCopy \/ MiAdd \/ MiBarrier \/ MiLoad
    \/ \E p \in DOMAIN peers : PeerCopy(p)
    \/ \E p \in DOMAIN peers : PeerAdd(p)
    \/ \E p \in DOMAIN peers : PeerBarrier(p)
    \/ \E p \in DOMAIN peers : PeerLoad(p)

SpecWorkers == WorkersInit /\ [][WorkersNext]_vars

\* ------------------------------------- the update coefficient over rounds
\* adjustcoef and adjustnbmb as the constructor takes them: any double, and
\* any number of rounds from 1 on.
CoefValues == {Rat(-1, 2), Rat(0, 1), Rat(1, 5), Rat(1, 1), Rat(3, 2)}
RampValues == 1 .. MaxRamp

CoefInit ==
    InitOf([Inputs EXCEPT !.workers = {1}, !.adjustCoefs = CoefValues,
                          !.adjustNbmbs = RampValues])

\* One more round: _commCnt++ (line 175), then factor = getUpdateCoefficient()
\* (lines 224, 286, 312).
CountRound ==
    /\ pc = "idle"
    /\ commCnt < MaxRound
    /\ commCnt' = NextCount
    /\ factor' = UpdateCoefficient(commCnt')
    /\ UNCHANGED <<inputs, peers, model, store, pc, config, nCacheIdx, layout, buffers,
                   heap, threads, history, counters>>

CoefNext == Construct \/ ConstructFail \/ CountRound

SpecCoef == CoefInit /\ [][CoefNext]_vars

\* ----------------------------------------------- the total length of Init()
\* mat.GetNumElements() of a learnable node: a matrix of one element, of
\* 2^30 elements (32768 x 32768), of 2^31 - 1 elements.
CountValues == {1, 1073741824, IntMax}
CountVectors == UNION {[0 .. n - 1 -> CountValues] : n \in 0 .. MaxNodes}

\* Lines 412-424 for nodes given by their element counts: _vTableLength,
\* _nTableCnt and _lTotalLength.
InitLengths ==
    /\ pc = "new"
    /\ \E lengths \in CountVectors :
          /\ vTableLength' = lengths
          /\ nTableCnt' = Cardinality(DOMAIN lengths)
          /\ lTotalLength' = Accumulate(lengths, Cardinality(DOMAIN lengths))
    /\ isInitialized' = TRUE
    /\ pc' = "counted"
    /\ UNCHANGED <<inputs, peers, model, store, commCnt, adjusttype, adjustcoef, adjustnbmb,
                   momentumAdd, elasticAdd, nClients, isPipeline, nLocalCache,
                   pCacheState, nCacheIdx, vTableIdx, pSizeEachServer, pIdxEachServer,
                   buffers, heap, threads, factor, history, counters>>

SpecTotal == Init /\ [][InitLengths]_vars

\* ================================================================ claims
IsAdd(c) == c.op = "Add" /\ c.by = "ModelSync"
IsLoad(c) == c.op = "BatchLoad" /\ c.by = "ModelSync"
RunningTasks == {k \in DOMAIN tasks : Running(k)}

\* C1: under the pipelined strategy at most one background task is in flight
\* at any instant, and none is while ModelSync rotates the active slot,
\* copies into a slot or spawns the next task.
C1_AtMostOneInFlight ==
    isPipeline =>
        /\ Cardinality(RunningTasks) <= 1
        /\ pc \in {"ms_rotate", "ms_gather", "ms_spawn"} => RunningTasks = {}

\* A second task is running and the first one has been joined.
C1_Witness ==
    /\ isPipeline /\ Len(tasks) >= 2
    /\ tasks[1].joined /\ Running(2)

\* The cache slots and the DeltaBuffer.
HostBuffers == {BufDelta} \cup {BufCache(i) : i \in 0 .. 1}

\* C2: the caller never reads or writes a cache slot or the DeltaBuffer while
\* a background task that reads or writes the same buffer is in flight.
C2_NoConcurrentAccess ==
    \A k \in DOMAIN tasks : CallerAccess \cap TaskFootprint(k) \cap HostBuffers = {}

\* C3: under pipelined delta accumulation the weight of round k's Add calls
\* is the coefficient for the round counter value k.
C3_WeightOfOwnRound ==
    \A i \in DOMAIN calls :
        (IsAdd(calls[i]) /\ isPipeline /\ NotElastic)
            => RatEq(calls[i].weight, UpdateCoefficient(calls[i].round))

\* C4: every Add of ModelSync round k is issued before the first Add of
\* round k + 1.
C4_AddsInRoundOrder ==
    \A j \in DOMAIN calls :
        IsAdd(calls[j]) =>
            \A i \in 1 .. j - 1 : IsAdd(calls[i]) => calls[i].round <= calls[j].round

\* Pipelined: the Adds of round 1 and of round 2 have both been issued.
C4_Witness ==
    /\ isPipeline
    /\ \E i, j \in DOMAIN calls :
          IsAdd(calls[i]) /\ IsAdd(calls[j]) /\ calls[i].round = 1 /\ calls[j].round = 2

\* No ModelInit call between the call of round q and the subtraction of round r.
NoInitBetween(q, r) == rounds[r].initsAtPush = rounds[q].initsBefore

\* C5 as stated: in delta-accumulation mode the snapshot round k + 1
\* subtracts is the one round k's BatchLoad wrote, pipelined or not.
C5_BaselineIsPreviousLoad ==
    \A r \in DOMAIN rounds :
        (NotElastic /\ r >= 2 /\ rounds[r].pushed /\ NoInitBetween(r - 1, r))
            => rounds[r].subtrahend = rounds[r - 1].loaded

\* C5: in delta-accumulation mode, with no ModelInit call in between, a
\* non-pipelined round k + 1 subtracts the snapshot round k's BatchLoad
\* wrote; a pipelined round of the device build subtracts what its own slot
\* holds: the snapshot written by the BatchLoad of round k - 1, and the
\* snapshot ModelInit stored in rounds 1 and 2.
C5_Baseline ==
    \A r \in DOMAIN rounds :
        (NotElastic /\ rounds[r].pushed) =>
            IF ~isPipeline
            THEN (r >= 2 /\ NoInitBetween(r - 1, r))
                    => rounds[r].subtrahend = rounds[r - 1].loaded
            ELSE ~CPUONLY =>
                    /\ (r >= 3 /\ NoInitBetween(r - 2, r))
                          => rounds[r].subtrahend = rounds[r - 2].loaded
                    /\ (r <= 2 /\ NoInitBetween(r, r))
                          => rounds[r].subtrahend = inits[rounds[r].initsBefore].snapshot

\* Pipelined, device build: round 3 has subtracted the snapshot of round 1,
\* which differs from the snapshot of round 2.
C5_Witness ==
    /\ isPipeline /\ ~CPUONLY /\ NotElastic
    /\ Len(rounds) >= 3 /\ rounds[3].pushed /\ NoInitBetween(1, 3)
    /\ rounds[3].subtrahend = rounds[1].loaded
    /\ rounds[3].subtrahend # rounds[2].loaded

\* Every element of the buffer is a definite value.
Determinate(buf) == \A j \in DOMAIN buf : buf[j] \notin GarbageVals

\* C6: in every delta-accumulation round, in every build, the buffer handed
\* to Add is (the values this call read from the model) minus (a snapshot
\* held in a cache slot when the call read the model).
C6_DeltaIsLocalMinusSnapshot ==
    \A i \in DOMAIN calls :
        (IsAdd(calls[i]) /\ NotElastic) =>
            /\ Determinate(calls[i].buf)
            /\ \E t \in DOMAIN rounds[calls[i].round].base :
                  calls[i].buf = Minus(rounds[calls[i].round].local,
                                       rounds[calls[i].round].base[t])

\* The ModelSync calls of round r on the adaptor, in order.
RoundCalls(r) == SelectSeq(calls, LAMBDA c : c.by = "ModelSync" /\ c.round = r)

\* C7: a delta-accumulation round issues one Add per partition index
\* 0 .. _nClients - 1 and then one BatchLoad.
C7_OneAddPerPartition ==
    \A r \in DOMAIN rounds :
        (NotElastic /\ rounds[r].pulled) =>
            /\ Len(RoundCalls(r)) = nClients + 1
            /\ \A n \in 1 .. nClients :
                  RoundCalls(r)[n].op = "Add" /\ RoundCalls(r)[n].row = n - 1
            /\ RoundCalls(r)[nClients + 1].op = "BatchLoad"

\* C8 as stated: with no ramp the weight of every Add is 1 / workerCount.
C8_WeightIsEven ==
    \A i \in DOMAIN calls :
        (IsAdd(calls[i]) /\ NotElastic /\ adjusttype = "None")
            => RatEq(calls[i].weight, Rat(1, nClients))

\* C8: in delta-accumulation mode with ramp policy None the weight of every
\* Add of every ModelSync round is 1.
C8_WeightIsOne ==
    \A i \in DOMAIN calls :
        (IsAdd(calls[i]) /\ NotElastic /\ adjusttype = "None")
            => RatEq(calls[i].weight, RatOne)

\* Two workers, no ramp: a round has issued its Adds.
C8_Witness ==
    /\ nClients = 2 /\ NotElastic /\ adjusttype = "None"
    /\ \E i \in DOMAIN calls : IsAdd(calls[i])

\* C9: in an elastic-averaging round the BatchLoad is issued before the
\* first Add; in a delta-accumulation round the Adds come before the BatchLoad.
C9_PullBeforePush ==
    \A i \in DOMAIN calls :
        /\ (IsAdd(calls[i]) /\ ~NotElastic) =>
              \E j \in 1 .. i - 1 : IsLoad(calls[j]) /\ calls[j].round = calls[i].round
        /\ (IsLoad(calls[i]) /\ NotElastic) =>
              \E j \in 1 .. i - 1 : IsAdd(calls[j]) /\ calls[j].round = calls[i].round

\* An elastic round has pulled and pushed, pipelined.
C9_Witness ==
    /\ ~NotElastic /\ isPipeline
    /\ \E i \in DOMAIN calls : IsAdd(calls[i])

\* C10: in a non-pipelined elastic-averaging round the buffer handed to Add
\* is (the values read from the model) minus (the snapshot just pulled), and
\* the weight is _elasticAdd whatever the ramp policy and the round.
C10_ElasticPush ==
    \A i \in DOMAIN calls :
        (IsAdd(calls[i]) /\ ~NotElastic /\ ~isPipeline) =>
            /\ Determinate(calls[i].buf)
            /\ calls[i].buf = Minus(rounds[calls[i].round].local,
                                    rounds[calls[i].round].loaded)
            /\ RatEq(calls[i].weight, elasticAdd)

BothAdds == ~RatIsZero(args.momentumAdd) /\ ~RatIsZero(args.elasticAdd)

C13_EmptyRejected == model = <<>> => pc \in {"new", "error"}

\* The wrapper is constructed.
Constructed == pc \notin {"new", "error"}

\* C14: the partition map has one range per worker, starts at 0, is
\* contiguous, covers the total length, its sizes differ by at most 1, and
\* exactly the first (total length mod worker count) ranges have the extra
\* element.
C14_PartitionMap ==
    Constructed =>
        /\ DOMAIN pIdxEachServer = 0 .. nClients - 1
        /\ DOMAIN pSizeEachServer = 0 .. nClients - 1
        /\ pIdxEachServer[0] = 0
        /\ \A i \in 0 .. nClients - 2 :
              pIdxEachServer[i + 1] = pIdxEachServer[i] + pSizeEachServer[i]
        /\ pIdxEachServer[nClients - 1] + pSizeEachServer[nClients - 1] = lTotalLength
        /\ \A i, j \in 0 .. nClients - 1 :
              pSizeEachServer[i] - pSizeEachServer[j] \in {-1, 0, 1}
        /\ \A i \in 0 .. nClients - 1 :
              pSizeEachServer[i] = (lTotalLength \div nClients)
                                     + (IF i < lTotalLength % nClients THEN 1 ELSE 0)

\* Total length 8 over 3 workers: (0, 3), (3, 3), (6, 2).
C14_Witness ==
    /\ Constructed /\ lTotalLength = 8 /\ nClients = 3
    /\ pIdxEachServer = [i \in 0 .. 2 |-> 3 * i]
    /\ pSizeEachServer = [i \in 0 .. 2 |-> IF i = 2 THEN 2 ELSE 3]

\* t is the sum of the first n lengths.
RECURSIVE IsSum(_, _, _)
IsSum(t, lengths, n) ==
    IF n = 0 THEN t = 0
    ELSE t >= lengths[n - 1] /\ IsSum(t - lengths[n - 1], lengths, n - 1)

\* The layout is the one of the nodes' element counts: offsets are the sums
\* of the counts before, and the worker count's partition of the total.
LayoutOfNodes ==
    Constructed =>
        /\ vTableLength = TableLength(model) /\ vTableIdx = TableIdx(model)
        /\ nTableCnt = Len(model)
        /\ IsSum(lTotalLength, vTableLength, nTableCnt)
        /\ pIdxEachServer = [i \in 0 .. args.localWorkerNumber - 1 |->
                                PartIdx(lTotalLength, args.localWorkerNumber, i)]
        /\ pSizeEachServer = [i \in 0 .. args.localWorkerNumber - 1 |->
                                 PartSize(lTotalLength, args.localWorkerNumber, i)]

\* C15 (total length): for every sequence of learnable nodes, _lTotalLength
\* is the sum of the nodes' element counts.
C15_TotalIsSum ==
    pc = "counted" => IsSum(lTotalLength, vTableLength, nTableCnt)

\* ModelInit has completed on every worker.
InitDone ==
    /\ pc = "idle" /\ Len(inits) = 1
    /\ \A p \in DOMAIN peers : peers[p].pc = "idle"

\* C16: when ModelInit has completed on all workers, slot 0 of every worker
\* holds the merged result its BatchLoad pulled after the barrier, and slot 0
\* is the same on all workers.
C16_SlotZeroIsMerged ==
    InitDone =>
        /\ pPCache[0] = inits[1].loaded
        /\ \A p \in DOMAIN peers :
              peers[p].slot0 = peers[p].loaded /\ peers[p].slot0 = pPCache[0]

IsInitCall(c, wk, o) == c.by = "ModelInit" /\ c.worker = wk /\ c.op = o

\* C17: a worker issues its ModelInit Adds, one per partition, before its
\* Barrier and its BatchLoad after it, and no worker's ModelInit BatchLoad is
\* issued before every worker has issued all its ModelInit Adds.
C17_AddsBeforeLoads ==
    \A i \in DOMAIN calls :
        (calls[i].by = "ModelInit" /\ calls[i].op = "BatchLoad") =>
            /\ \E b \in 1 .. i - 1 :
                  /\ IsInitCall(calls[b], calls[i].worker, "Barrier")
                  /\ \A row \in 0 .. nClients - 1 : \E j \in 1 .. b - 1 :
                        IsInitCall(calls[j], calls[i].worker, "Add") /\ calls[j].row = row
            /\ \A wk \in 0 .. Len(peers) : \A row \in 0 .. nClients - 1 :
                  \E j \in 1 .. i - 1 :
                      /\ IsInitCall(calls[j], wk, "Add") /\ calls[j].row = row
                      /\ RatEq(calls[j].weight, Rat(1, nClients))

\* Three workers have all completed ModelInit.
C17_Witness == InitDone /\ Len(peers) = 2 /\ nClients = 3

\* C18: one worker, non-pipelined delta accumulation, ramp policy None, one
\* ModelInit and then ModelSync rounds: after each round the snapshot in
\* slot 0 and the values written back to the model are the local snapshot
\* the round gathered.
C18_RoundTrip ==
    \A r \in DOMAIN rounds :
        (/\ nClients = 1 /\ ~isPipeline /\ NotElastic /\ adjusttype = "None"
         /\ rounds[r].initsBefore = 1 /\ rounds[r].written # NoBuffer) =>
            /\ Determinate(rounds[r].loaded)
            /\ rounds[r].loaded = rounds[r].local
            /\ rounds[r].written = rounds[r].local

\* The factor of round index i, for the rounds counted so far: the one
\* ModelSync computed for the last round, the function's value before.
FactorAt(i) == IF i = commCnt /\ i > 0 THEN factor ELSE UpdateCoefficient(i)
NonDecreasing == \A i, j \in 0 .. commCnt : i < j => RatLeq(FactorAt(i), FactorAt(j))
WithinUnit == \A i \in 0 .. commCnt : RatLeq(RatZero, FactorAt(i)) /\ RatLeq(FactorAt(i), RatOne)
BlockConstant ==
    \A i, j \in 0 .. commCnt :
        (i \div adjustnbmb = j \div adjustnbmb) => RatEq(FactorAt(i), FactorAt(j))

\* C19 as stated: for every adjust coefficient, under Linearly the factor is
\* non-decreasing in the round index and lies in [adjustcoef, 1]; under
\* Staircase it is non-decreasing and constant within a block of adjustnbmb
\* round indices.
C19_Ramp ==
    Constructed =>
        /\ adjusttype = "Linearly" =>
              /\ NonDecreasing
              /\ \A i \in 0 .. commCnt :
                    RatLeq(adjustcoef, FactorAt(i)) /\ RatLeq(FactorAt(i), RatOne)
        /\ adjusttype = "Staircase" => NonDecreasing /\ BlockConstant

\* C19: the factor always lies in [0, 1]; under Linearly it is non-decreasing
\* and at least adjustcoef when adjustcoef <= 1; under Staircase it is
\* non-decreasing and constant within a block of adjustnbmb round indices.
C19_RampClamped ==
    Constructed =>
        /\ WithinUnit
        /\ (adjusttype = "Linearly" /\ RatLeq(adjustcoef, RatOne)) =>
              /\ NonDecreasing
              /\ \A i \in 0 .. commCnt : RatLeq(adjustcoef, FactorAt(i))
        /\ adjusttype = "Staircase" => NonDecreasing /\ BlockConstant

\* Linearly with an adjust coefficient above 1: the factor has gone down,
\* below the coefficient.
C19_Witness ==
    /\ Constructed /\ adjusttype = "Linearly" /\ RatLess(RatOne, adjustcoef)
    /\ commCnt > 0 /\ RatLess(factor, UpdateCoefficient(0))

\* The reference function of the round index k, written from the formulas
\* clamp(coef + (1 - coef) / ramp * k, 0, 1) and
\* clamp(coef * (floor(k / ramp) + 1), 0, 1).
RefClamp(x) == IF RatLeq(x, RatZero) THEN RatZero ELSE IF RatLeq(RatOne, x) THEN RatOne ELSE x
RefLinearly(k) ==
    RatPlus(adjustcoef,
            RatTimes(RatTimes(RatPlus(RatOne, Rat(-adjustcoef[1], adjustcoef[2])),
                              Rat(1, adjustnbmb)),
                     Rat(k, 1)))
RefStaircase(k) == RatTimes(adjustcoef, Rat((k \div adjustnbmb) + 1, 1))
RefFactor(k) ==
    IF adjusttype = "None" THEN RatOne
    ELSE IF adjusttype = "Linearly" THEN RefClamp(RefLinearly(k))
    ELSE RefClamp(RefStaircase(k))

\* C20: in the non-pipelined delta-accumulation path the weight of every Add
\* of the k-th ModelSync is the reference function's value at round index k,
\* and so lies in [0, 1].
C20_WeightIsReference ==
    \A i \in DOMAIN calls :
        (IsAdd(calls[i]) /\ ~isPipeline /\ NotElastic) =>
            /\ RatEq(calls[i].weight, RefFactor(calls[i].round))
            /\ RatLeq(RatZero, calls[i].weight) /\ RatLeq(calls[i].weight, RatOne)

\* Non-pipelined, Linearly: a round pushed with a weight below 1 and a later
\* round with the weight 1.
C20_Witness ==
    /\ ~isPipeline /\ NotElastic /\ adjusttype = "Linearly"
    /\ \E i, j \in DOMAIN calls :
          /\ IsAdd(calls[i]) /\ IsAdd(calls[j]) /\ calls[i].round < calls[j].round
          /\ RatLess(calls[i].weight, RatOne) /\ RatEq(calls[j].weight, RatOne)

\* C21: in non-pipelined operation no thread is ever started, and whenever
\* no call is executing every ModelSync round made so far has issued all its
\* Adds and its BatchLoad and has written the model back.
C21_SynchronousWhenNotPipelined ==
    (Constructed /\ ~isPipeline) =>
        /\ tasks = <<>> /\ pThread = 0
        /\ pc = "idle" =>
              \A r \in DOMAIN rounds :
                  /\ rounds[r].pushed /\ rounds[r].pulled
                  /\ rounds[r].written # NoBuffer
                  /\ Len(SelectSeq(RoundCalls(r), LAMBDA c : c.op = "Add")) = nClients
                  /\ Len(SelectSeq(RoundCalls(r), LAMBDA c : c.op = "BatchLoad")) = 1

\* Non-pipelined: two ModelSync calls have returned.
C21_Witness ==
    /\ Constructed /\ ~isPipeline /\ pc = "idle"
    /\ Len(rounds) = 2 /\ rounds[2].written # NoBuffer

\* C22: from construction on every cache slot is allocated, in every build
\* and in pipelined as in non-pipelined operation.
C22_SlotsStayAllocated ==
    Constructed => \A i \in 0 .. nLocalCache - 1 : ~Invalid(BufCache(i))

\* C23: after construction, in every build, every cache slot and the
\* DeltaBuffer are allocated with at least _lTotalLength elements.
C23_AllAllocated ==
    pc = "idle" /\ nCalls = 0 =>
        \A b \in {BufDelta} \cup {BufCache(i) : i \in 0 .. nLocalCache - 1} :
            heap[b].state = "ok" /\ heap[b].size >= lTotalLength

\* C24: the round counter equals the number of ModelSync calls started so
\* far, whatever other operations were called in between, and it has counted
\* a call before any Add or BatchLoad of that call is issued.
C24_CounterCountsRounds ==
    /\ commCnt = Len(rounds)
    /\ \A i \in DOMAIN calls :
          calls[i].by = "ModelSync" => 1 <= calls[i].round /\ calls[i].round <= commCnt

\* Two ModelSync calls with a ModelLoadServer call between them.
C24_Witness ==
    /\ commCnt = 2 /\ Len(inits) = 1
    /\ \E i, j, l \in DOMAIN calls :
          /\ i < j /\ j < l
          /\ IsAdd(calls[i]) /\ calls[i].round = 1
          /\ calls[j].by = "ModelLoadServer"
          /\ IsAdd(calls[l]) /\ calls[l].round = 2

\* The number of ModelSync calls that have got past the statement of line 182.
Rotations == Len(rounds) - (IF pc \in {"ms_join", "ms_rotate"} THEN 1 ELSE 0)

\* C25: the active slot index lies in [0, slot count); with one slot it is
\* always 0, with two slots it is k mod 2 once k ModelSync calls have rotated
\* it, whatever other operations were called and whatever the buffers hold.
C25_SlotRoundRobin ==
    Constructed =>
        /\ nLocalCache = (IF isPipeline THEN 2 ELSE 1)
        /\ nCacheIdx \in 0 .. nLocalCache - 1
        /\ nLocalCache = 1 => nCacheIdx = 0
        /\ nLocalCache = 2 => nCacheIdx = Rotations % 2

\* Pipelined: three ModelSync calls have returned, slot 1 is active.
C25_Witness ==
    /\ isPipeline /\ pc = "idle" /\ Len(rounds) = 3 /\ nCacheIdx = 1

\* All cache slots hold the same definite contents as slot 0.
SlotsAgree(slots) ==
    \A i \in DOMAIN slots : Determinate(slots[i]) /\ slots[i] = slots[0]

\* A ModelInit call has returned, no other call has been made since and no
\* ModelSync round has begun.
InitReturned == pc = "idle" /\ Len(inits) >= 1 /\ rounds = <<>>

\* C26: when a ModelInit call made before the first ModelSync round has
\* returned, every cache slot holds what slot 0 holds, for one slot and for
\* two: the values the model had at the call.
C26_SlotsAgreeAfterInit ==
    InitReturned =>
        /\ SlotsAgree(pPCache)
        /\ ~trained => pPCache[0] = Flat(model)

\* Two slots: ModelInit has returned and no ModelSync round has begun.
C26_Witness ==
    /\ pc = "idle" /\ Len(inits) = 1 /\ rounds = <<>>
    /\ nLocalCache = 2 /\ pPCache[1] = pPCache[0] /\ pPCache[0] = Flat(model)

\* C27: a ModelLoadServer or ModelLoadBack call leaves every cache slot, the
\* DeltaBuffer, the active slot index and the round counter as they are, and
\* neither starts nor joins a thread.
C27_LoadsLeaveSlots ==
    [][(ModelLoadServer \/ ModelLoadBack) =>
          UNCHANGED <<pPCache, pDelta, nCacheIdx, commCnt, pThread, tasks>>]_vars

\* C28: under pipelined delta accumulation, with no ModelInit call after the
\* first round has begun, the values round k writes into the model are the
\* snapshot ModelInit stored when k = 1, and the snapshot the BatchLoad of
\* round k - 1 wrote when k >= 2.
C28_WritesPreviousLoad ==
    \A r \in DOMAIN rounds :
        (isPipeline /\ NotElastic /\ rounds[r].written # NoBuffer
                    /\ rounds[r].initsBefore = rounds[1].initsBefore) =>
            /\ Determinate(rounds[r].written)
            /\ r = 1 => rounds[r].written = inits[rounds[r].initsBefore].snapshot
            /\ r >= 2 => rounds[r].written = rounds[r - 1].loaded

\* Task k has not issued all its calls on the adaptor yet.
Transferring(k) == tasks[k].pc \in {"start", "push", "load"}

\* A step of the calling thread that issues a call on the adaptor.
CallerIssues == MiAdd \/ MiBarrier \/ MiLoad \/ NpPush \/ NpLoad \/ ModelLoadServer

\* C29: under the pipelined strategy the calling thread issues no call on the
\* adaptor, in ModelInit, ModelSync or ModelLoadServer, while a background
\* task of an earlier ModelSync still has calls to issue.
C29_NoOverlappingCalls ==
    [][(isPipeline /\ CallerIssues) => \A k \in DOMAIN tasks : ~Transferring(k)]_vars

\* C29 for ModelLoadServer alone: its BatchLoad is not issued while a
\* background task still has calls to issue.
LoadServerAlone ==
    [][(isPipeline /\ ModelLoadServer) => \A k \in DOMAIN tasks : ~Transferring(k)]_vars

\* The destructor has been entered.
Destroying == pc \in {"dt_join", "dt_free", "destroyed"}

\* C30: when the wrapper is destroyed under the pipelined strategy, no
\* background task is running once the destructor frees the buffers, and no
\* task running during the destruction uses a buffer that has been freed.
C30_JoinBeforeFree ==
    (isPipeline /\ Destroying) =>
        /\ pc \in {"dt_free", "destroyed"} => RunningTasks = {}
        /\ \A k \in RunningTasks : \A b \in TaskFootprint(k) : heap[b].state # "freed"

\* The first half of C30: the destructor frees nothing before the task has
\* returned.
JoinedBeforeFree ==
    (isPipeline /\ pc \in {"dt_free", "destroyed"}) => RunningTasks = {}

\* A ModelSync call is executing on the calling thread.
InSync == pc \in {"ms_join", "ms_rotate", "ms_gather", "ms_spawn"}

\* The caller's next statement cannot run.
Blocked == Constructed /\ pc \notin {"idle", "destroyed", "aborted"} /\ ~ENABLED CallerStep

\* C31: under the pipelined strategy, both threads being scheduled fairly
\* and the calls on the adaptor returning, every ModelSync call returns,
\* every background task that was started completes, and the caller is
\* blocked only in the join of ModelSync or of the destructor, waiting for a
\* task that is running.
C31_SyncReturns ==
    /\ (isPipeline /\ InSync) ~> (pc = "idle")
    /\ \A k \in 1 .. MaxCalls :
          (k \in DOMAIN tasks) ~> (k \in DOMAIN tasks /\ tasks[k].pc = "done")
    /\ [](Blocked => (pc \in {"ms_join", "dt_join"} /\ MustJoin /\ Running(pThread)))

\* C31 in the device build.
SyncReturnsOnDevice ==
    /\ (~CPUONLY /\ isPipeline /\ InSync) ~> (pc = "idle")
    /\ \A k \in 1 .. MaxCalls :
          (~CPUONLY /\ k \in DOMAIN tasks) ~> (k \in DOMAIN tasks /\ tasks[k].pc = "done")
    /\ [](Blocked => (pc \in {"ms_join", "dt_join"} /\ MustJoin /\ Running(pThread)))

====
